---- MODULE Spec2Model ----
(***************************************************************************)
(* ObjectPool of src/src/index.ts (roblox-ts, compiled to Luau).           *)
(*                                                                         *)
(* The pool's private fields are the variables.  Every method of the class *)
(* is an operator from a pool record to a pool record, so that one method  *)
(* calling another is function composition; an action applies one public   *)
(* entry point (Use, Init, DestroyPool, a dispose closure, the listener of *)
(* dispose_event_) to the current fields and commits the result.           *)
(*                                                                         *)
(* The abstract hooks Create/Start/Dispose/Destroy are supplied by the     *)
(* subclass.  They are modelled by what the pool can observe of them: the  *)
(* number of times each was invoked on each value, and the order of the    *)
(* invocations made by the operation that ran last.                        *)
(***************************************************************************)
EXTENDS Integers, Sequences, FiniteSets, TLC

\* ---------------------------------------------------------------- bounds
MaxPoolSize == 2
MaxUses == 3
MaxSignals == 2
MaxFairUses == 2

\* ------------------------------------------------------------- constants
PoolTypes == {"Unbounded", "Elastic", "Fixed", "FailSilent"}
PoolSizes == -1 .. MaxPoolSize

undefined == -1

NoError == "none"
ErrDestroyed == "Object pool is destroyed"
ErrSize == "Initial pool size should be greater than 0"

VARIABLES
    initial_pool_size_,    \* constructor argument
    object_pool_type_,     \* constructor argument
    used_instances_list_,  \* sequence of CreationIds
    instances_list_,       \* the free list: sequence of CreationIds
    creation_id_,          \* next CreationId
    instances_map_,        \* set of CreationIds the map holds
    is_destroyed_,
    is_started_,
    instance,              \* the IObjectPoolInstance objects: CreationId -> [IsActive, UseId]
    listeners,             \* connections on dispose_event_.Event
    signals,               \* fired (creation_id, use_id) pairs not yet handled by a listener
    caps,                  \* dispose closures handed to Start: <<CreationId, use_id>>
    value,                 \* per value: hook invocation counts and time of last Start
    create_calls,          \* invocations of Create
    start_calls,           \* invocations of Start
    calls,                 \* hook invocations of the last operation, in order
    err,                   \* the error the last operation raised
    last                   \* the last operation and its argument

vars == <<initial_pool_size_, object_pool_type_, used_instances_list_, instances_list_,
          creation_id_, instances_map_, is_destroyed_, is_started_, instance, listeners,
          signals, caps, value, create_calls, start_calls, calls, err, last>>

\* The fields of the pool object (what "the pool state" means in the properties).
poolState == <<used_instances_list_, instances_list_, creation_id_, instances_map_,
               is_destroyed_, is_started_, instance, listeners>>

\* The hook invocation counters.
hookState == <<value, create_calls, start_calls>>

Pool ==
    [initial_pool_size_ |-> initial_pool_size_,
     object_pool_type_ |-> object_pool_type_,
     used_instances_list_ |-> used_instances_list_,
     instances_list_ |-> instances_list_,
     creation_id_ |-> creation_id_,
     instances_map_ |-> instances_map_,
     is_destroyed_ |-> is_destroyed_,
     is_started_ |-> is_started_,
     instance |-> instance,
     listeners |-> listeners,
     signals |-> signals,
     caps |-> caps,
     value |-> value,
     create_calls |-> create_calls,
     start_calls |-> start_calls,
     calls |-> <<>>,
     err |-> NoError]

Commit(p) ==
    /\ initial_pool_size_' = p.initial_pool_size_
    /\ object_pool_type_' = p.object_pool_type_
    /\ used_instances_list_' = p.used_instances_list_
    /\ instances_list_' = p.instances_list_
    /\ creation_id_' = p.creation_id_
    /\ instances_map_' = p.instances_map_
    /\ is_destroyed_' = p.is_destroyed_
    /\ is_started_' = p.is_started_
    /\ instance' = p.instance
    /\ listeners' = p.listeners
    /\ signals' = p.signals
    /\ caps' = p.caps
    /\ value' = p.value
    /\ create_calls' = p.create_calls
    /\ start_calls' = p.start_calls
    /\ calls' = p.calls
    /\ err' = p.err

\* ------------------------------------------------- roblox-ts array methods
\* Array.indexOf: 0-based index of the first occurrence, -1 when absent.
indexOf(list, x) ==
    IF \E i \in 1..Len(list) : list[i] = x
    THEN (CHOOSE i \in 1..Len(list) : list[i] = x /\ \A j \in 1..(i-1) : list[j] # x) - 1
    ELSE -1

\* Array.remove(index) is table.remove(list, index + 1): a position outside
\* 1..#list removes nothing.
remove(list, index) ==
    IF index + 1 \in 1..Len(list)
    THEN [i \in 1..(Len(list) - 1) |-> IF i < index + 1 THEN list[i] ELSE list[i + 1]]
    ELSE list

\* ----------------------------------------------------------------- hooks
Create(p, id) ==
    [p EXCEPT !.create_calls = @ + 1,
              !.calls = Append(@, <<"Create", id>>),
              !.value = [c \in DOMAIN @ \cup {id} |->
                            IF c = id THEN [Start |-> 0, Dispose |-> 0, Destroy |-> 0, StartedAt |-> 0]
                            ELSE @[c]]]

\* Start receives the dispose closure, which captures the instance and use_id.
Start(p, c, use_id) ==
    [p EXCEPT !.start_calls = @ + 1,
              !.calls = Append(@, <<"Start", c>>),
              !.value[c].Start = @ + 1,
              !.value[c].StartedAt = p.start_calls + 1,
              !.caps = @ \cup {<<c, use_id>>}]

Dispose(p, c) ==
    [p EXCEPT !.calls = Append(@, <<"Dispose", c>>),
              !.value[c].Dispose = @ + 1]

Destroy(p, c) ==
    [p EXCEPT !.calls = Append(@, <<"Destroy", c>>),
              !.value[c].Destroy = @ + 1]

\* --------------------------------------------------------------- methods
CreateInstance(p) ==
    LET instance_creation_id == p.creation_id_
        p1 == [p EXCEPT !.creation_id_ = @ + 1]
        p2 == Create(p1, instance_creation_id)
    IN  [p2 EXCEPT !.instance = [c \in DOMAIN @ \cup {instance_creation_id} |->
                                    IF c = instance_creation_id
                                    THEN [IsActive |-> FALSE, UseId |-> 0]
                                    ELSE @[c]],
                   !.instances_map_ = @ \cup {instance_creation_id}]

\* DisposeOfInstance without the UseId increment.
DisposeOfInstance_KeepsUseId(p, c) ==
    Dispose([p EXCEPT !.instance[c].IsActive = FALSE], c)

DisposeOfInstance(p, c) ==
    Dispose([p EXCEPT !.instance[c].UseId = @ + 1,
                      !.instance[c].IsActive = FALSE], c)

DestroyInstance(p, c) ==
    LET p1 == [p EXCEPT !.instances_map_ = @ \ {c}]
        p2 == Destroy(p1, c)
    IN  [p2 EXCEPT !.instances_list_ = remove(@, indexOf(@, c))]

\* A FreeInstance whose Elastic test counts the freed instance as already added.
FreeInstance_ShrinksEarly(p, c) ==
    LET p1 == [p EXCEPT !.used_instances_list_ = remove(@, indexOf(@, c))]
        p2 == DisposeOfInstance(p1, c)
    IN  IF /\ p2.object_pool_type_ = "Elastic"
           /\ Len(p2.instances_list_) + 1 >= p2.initial_pool_size_
        THEN DestroyInstance(p2, c)
        ELSE [p2 EXCEPT !.instances_list_ = Append(@, c)]

\* A FreeInstance that forgets to push the freed instance on the free list.
FreeInstance_DropsInstance(p, c) ==
    LET p1 == [p EXCEPT !.used_instances_list_ = remove(@, indexOf(@, c))]
    IN  DisposeOfInstance(p1, c)

\* FreeInstance without the Elastic shrink: the freed instance is always kept.
FreeInstance_NeverShrinks(p, c) ==
    LET p1 == [p EXCEPT !.used_instances_list_ = remove(@, indexOf(@, c))]
        p2 == DisposeOfInstance(p1, c)
    IN  [p2 EXCEPT !.instances_list_ = Append(@, c)]

FreeInstance(p, c) ==
    LET p1 == [p EXCEPT !.used_instances_list_ = remove(@, indexOf(@, c))]
        p2 == DisposeOfInstance(p1, c)
    IN  IF /\ p2.object_pool_type_ = "Elastic"
           /\ Len(p2.instances_list_) >= p2.initial_pool_size_
        THEN DestroyInstance(p2, c)
        ELSE [p2 EXCEPT !.instances_list_ = Append(@, c)]

\* A Fixed branch that recycles the newest use instead of the oldest.
AllocateFixed_Newest(p) ==
    IF p.used_instances_list_ = <<>>
    THEN [pool |-> p, instance |-> undefined]
    ELSE LET n == Len(p.used_instances_list_)
             used_instance == p.used_instances_list_[n]
             p2 == DisposeOfInstance(p, used_instance)
         IN  [pool |-> [p2 EXCEPT !.instance[used_instance].IsActive = TRUE],
              instance |-> used_instance]

\* A Fixed branch that grows the pool instead of recycling.
AllocateFixed_Grows(p) ==
    LET p1 == CreateInstance(p)
    IN  [pool |-> [p1 EXCEPT !.used_instances_list_ = Append(@, p.creation_id_)],
         instance |-> p.creation_id_]

\* The Fixed branch of AllocateInstance.
AllocateFixed(p) ==
    IF p.used_instances_list_ = <<>>
    THEN [pool |-> p, instance |-> undefined]
    ELSE LET used_instance == Head(p.used_instances_list_)
             p1 == [p EXCEPT !.used_instances_list_ = Append(Tail(@), used_instance)]
             p2 == DisposeOfInstance(p1, used_instance)
         IN  [pool |-> [p2 EXCEPT !.instance[used_instance].IsActive = TRUE],
              instance |-> used_instance]

\* A growth branch that recycles the oldest use instead of creating.
AllocateNew_Recycles(p) ==
    IF p.used_instances_list_ = <<>>
    THEN [pool |-> p, instance |-> undefined]
    ELSE LET used_instance == Head(p.used_instances_list_)
             p1 == [p EXCEPT !.used_instances_list_ = Append(Tail(@), used_instance)]
             p2 == DisposeOfInstance(p1, used_instance)
         IN  [pool |-> [p2 EXCEPT !.instance[used_instance].IsActive = TRUE],
              instance |-> used_instance]

\* The growth branch of AllocateInstance (Unbounded and Elastic).
AllocateNew(p) ==
    LET p1 == CreateInstance(p)
    IN  [pool |-> [p1 EXCEPT !.used_instances_list_ = Append(@, p.creation_id_)],
         instance |-> p.creation_id_]

\* An exhausted path without the FailSilent return.
AllocateExhausted_NoFailSilent(p) ==
    IF p.object_pool_type_ = "Fixed" THEN AllocateFixed(p)
    ELSE AllocateNew(p)

\* What AllocateInstance does when the free list is empty.
AllocateExhausted(p) ==
    IF p.object_pool_type_ = "FailSilent" THEN [pool |-> p, instance |-> undefined]
    ELSE IF p.object_pool_type_ = "Fixed" THEN AllocateFixed(p)
    ELSE AllocateNew(p)

\* An AllocateInstance that takes the front of the free list instead of the back.
AllocateInstance_TakesFirst(p) ==
    IF p.instances_list_ # <<>>
    THEN LET taken == Head(p.instances_list_)
         IN  [pool |-> [p EXCEPT !.instances_list_ = Tail(@),
                                 !.used_instances_list_ = Append(@, taken),
                                 !.instance[taken].IsActive = TRUE],
              instance |-> taken]
    ELSE AllocateExhausted(p)

\* Returns the pool and the instance allocated (undefined when none).
AllocateInstance(p) ==
    IF p.instances_list_ # <<>>
    THEN LET n == Len(p.instances_list_)
             popped == p.instances_list_[n]
         IN  [pool |-> [p EXCEPT !.instances_list_ = SubSeq(@, 1, n - 1),
                                 !.used_instances_list_ = Append(@, popped),
                                 !.instance[popped].IsActive = TRUE],
              instance |-> popped]
    ELSE AllocateExhausted(p)

\* The loop of Init: k more instances created and pushed on the free list.
RECURSIVE InitFill(_, _)
InitFill(p, k) ==
    IF k <= 0 THEN p
    ELSE LET p1 == CreateInstance(p)
         IN  InitFill([p1 EXCEPT !.instances_list_ = Append(@, p.creation_id_)], k - 1)

\* dispose_event_.Event.Connect(listener)
Connect(p) == [p EXCEPT !.listeners = @ + 1]

\* Init without the assert on the pool size.
PoolInit_NoSizeAssert(p) ==
    IF p.is_started_ THEN p
    ELSE IF p.is_destroyed_ THEN [p EXCEPT !.err = ErrDestroyed]
    ELSE Connect(InitFill([p EXCEPT !.is_started_ = TRUE], p.initial_pool_size_))

\* Init without the is_started_ guard.
PoolInit_NoStartedGuard(p) ==
    IF p.is_destroyed_ THEN [p EXCEPT !.err = ErrDestroyed]
    ELSE IF ~(p.initial_pool_size_ > 0) THEN [p EXCEPT !.err = ErrSize]
    ELSE Connect(InitFill([p EXCEPT !.is_started_ = TRUE], p.initial_pool_size_))

\* Init without the assert on is_destroyed_.
PoolInit_NoDestroyedAssert(p) ==
    IF p.is_started_ THEN p
    ELSE IF ~(p.initial_pool_size_ > 0) THEN [p EXCEPT !.err = ErrSize]
    ELSE Connect(InitFill([p EXCEPT !.is_started_ = TRUE], p.initial_pool_size_))

\* ObjectPool.Init
PoolInit(p) ==
    IF p.is_started_ THEN p
    ELSE IF p.is_destroyed_ THEN [p EXCEPT !.err = ErrDestroyed]
    ELSE IF ~(p.initial_pool_size_ > 0) THEN [p EXCEPT !.err = ErrSize]
    ELSE Connect(InitFill([p EXCEPT !.is_started_ = TRUE], p.initial_pool_size_))

\* Use without the assert on is_destroyed_.
Use_NoDestroyedAssert(p) ==
    LET p1 == IF ~p.is_started_ THEN PoolInit(p) ELSE p
    IN  IF p1.err # NoError THEN p1
        ELSE LET a == AllocateInstance(p1)
             IN  IF a.instance = undefined THEN a.pool
                 ELSE Start(a.pool, a.instance, a.pool.instance[a.instance].UseId)

Use(p) ==
    LET p1 == IF ~p.is_started_ THEN PoolInit(p) ELSE p
    IN  IF p1.err # NoError THEN p1
        ELSE IF p1.is_destroyed_ THEN [p1 EXCEPT !.err = ErrDestroyed]
        ELSE LET a == AllocateInstance(p1)
             IN  IF a.instance = undefined THEN a.pool
                 ELSE Start(a.pool, a.instance, a.pool.instance[a.instance].UseId)

\* dispose_event_.Fire: one pending invocation per connected listener.
Fire(p, creation_id, use_id) ==
    [p EXCEPT !.signals = @ \o [i \in 1..p.listeners |-> <<creation_id, use_id>>]]

\* The closure Use hands to Start, for instance c and captured use_id.
DisposeClosure(p, c, use_id) ==
    IF p.instance[c].UseId # use_id THEN p
    ELSE Fire(p, c, p.instance[c].UseId)

\* A listener that does not compare the UseId.
Listener_NoUseIdCheck(p, creation_id, use_id) ==
    IF creation_id \notin p.instances_map_ THEN p
    ELSE FreeInstance(p, creation_id)

\* A listener that ignores every signal.
Listener_NeverFrees(p, creation_id, use_id) == p

\* The listener Init connects to dispose_event_.Event.
Listener(p, creation_id, use_id) ==
    IF creation_id \notin p.instances_map_ THEN p
    ELSE IF p.instance[creation_id].UseId # use_id THEN p
    ELSE FreeInstance(p, creation_id)

\* DestroyPool's loop over used_instances_list_ (the loop does not change that list).
RECURSIVE DestroyUsedLoop(_, _)
DestroyUsedLoop(p, i) ==
    IF i > Len(p.used_instances_list_) THEN p
    ELSE LET used_instance == p.used_instances_list_[i]
         IN  DestroyUsedLoop(DestroyInstance(DisposeOfInstance(p, used_instance), used_instance), i + 1)

\* DestroyPool's loop over instances_list_: the iteration reads position i of the
\* list as it is at that moment, and DestroyInstance removes from this very list.
RECURSIVE DestroyFreeLoop(_, _)
DestroyFreeLoop(p, i) ==
    IF i > Len(p.instances_list_) THEN p
    ELSE DestroyFreeLoop(DestroyInstance(p, p.instances_list_[i]), i + 1)

\* dispose_event_.Destroy() disconnects the listener: later Fire calls reach nobody.
DestroyPool(p) ==
    IF p.is_destroyed_ THEN p
    ELSE LET p1 == DestroyUsedLoop(p, 1)
             p2 == DestroyFreeLoop(p1, 1)
         IN  [p2 EXCEPT !.listeners = 0,
                        !.used_instances_list_ = <<>>,
                        !.instances_list_ = <<>>,
                        !.is_destroyed_ = TRUE]

\* ---------------------------------------------------------------- actions
Init ==
    /\ initial_pool_size_ \in PoolSizes
    /\ object_pool_type_ \in PoolTypes
    /\ used_instances_list_ = <<>>
    /\ instances_list_ = <<>>
    /\ creation_id_ = 0
    /\ instances_map_ = {}
    /\ is_destroyed_ = FALSE
    /\ is_started_ = FALSE
    /\ instance = [c \in {} |-> [IsActive |-> FALSE, UseId |-> 0]]
    /\ listeners = 0
    /\ signals = <<>>
    /\ caps = {}
    /\ value = [c \in {} |-> [Start |-> 0, Dispose |-> 0, Destroy |-> 0, StartedAt |-> 0]]
    /\ create_calls = 0
    /\ start_calls = 0
    /\ calls = <<>>
    /\ err = NoError
    /\ last = [op |-> "new", arg |-> <<undefined, undefined>>]

\* pool.Use(start_data)
UseAction ==
    /\ start_calls < MaxUses
    /\ Commit(Use(Pool))
    /\ last' = [op |-> "Use", arg |-> <<undefined, undefined>>]

\* this.Init() called by the subclass
InitAction ==
    /\ Commit(PoolInit(Pool))
    /\ last' = [op |-> "Init", arg |-> <<undefined, undefined>>]

\* pool.DestroyPool()
DestroyPoolAction ==
    /\ Commit(DestroyPool(Pool))
    /\ last' = [op |-> "DestroyPool", arg |-> <<undefined, undefined>>]

\* The caller invokes a dispose closure it was handed.
InvokeDispose ==
    \E cap \in caps :
        /\ Len(signals) < MaxSignals
        /\ Commit(DisposeClosure(Pool, cap[1], cap[2]))
        /\ last' = [op |-> "dispose", arg |-> cap]

\* A pending invocation of the listener runs, in any order.  Invocations that
\* were pending when dispose_event_ was destroyed may still run: the listener
\* itself has to cope with them.
DeliverSignal ==
    \E i \in 1..Len(signals) :
        /\ Commit(Listener([Pool EXCEPT !.signals = remove(@, i - 1)], signals[i][1], signals[i][2]))
        /\ last' = [op |-> "signal", arg |-> signals[i]]

Next ==
    \/ UseAction
    \/ InitAction
    \/ DestroyPoolAction
    \/ InvokeDispose
    \/ DeliverSignal

Spec == Init /\ [][Next]_vars

\* ------------------------------------------------------------ observations
\* Values created (Create invoked) and not torn down (Destroy not invoked).
Live == Cardinality({c \in DOMAIN value : value[c].Destroy = 0})

\* A (creation_id, use_id) pair the listener or the closure must ignore.
Stale(s) == s[1] \notin instances_map_ \/ instance[s[1]].UseId # s[2]

Running == is_started_ /\ ~is_destroyed_

Range(list) == {list[i] : i \in 1..Len(list)}

\* ------------------------------------------------------------------ claims

\* C1: a dispose closure or a pending signal (creation_id, use_id) whose use_id
\* differs from the instance's UseId, or whose creation_id the map no longer
\* holds, is ignored: no hook is invoked and the lists, the map and every
\* UseId stay as they are (a stale closure fires nothing either).  A closure
\* never changes the pool itself, and a signal ends at most the one activation
\* it names: it invokes Dispose once on that instance when valid, and on no other.
C1_StaleIgnored ==
    [][/\ (last'.op \in {"signal", "dispose"} /\ Stale(last'.arg))
            => /\ UNCHANGED <<poolState, hookState>>
               /\ calls' = <<>>
               /\ (last'.op = "dispose" => signals' = signals)
       /\ last'.op = "dispose" => UNCHANGED <<poolState, hookState>>
       /\ last'.op = "signal"
            => \A c \in DOMAIN value :
                 value'[c].Dispose =
                    value[c].Dispose + (IF c = last'.arg[1] /\ ~Stale(last'.arg) THEN 1 ELSE 0)
      ]_vars

\* C1 witness: a signal of an earlier activation was handled while its instance,
\* disposed and allocated again since, is in use; no hook was invoked.
C1_Witness ==
    /\ last.op = "signal"
    /\ calls = <<>>
    /\ last.arg[1] \in instances_map_
    /\ last.arg[1] \in Range(used_instances_list_)
    /\ instance[last.arg[1]].UseId > last.arg[2]
    /\ value[last.arg[1]].Start > 1

\* C2: a Fixed pool of size N never holds more than N live instances, and
\* Create has been invoked exactly N times once initialized (0 times before),
\* whatever Use, signals, forced recycles and DestroyPool happened.
C2_FixedNeverGrows ==
    object_pool_type_ = "Fixed" =>
        /\ create_calls = (IF is_started_ THEN initial_pool_size_ ELSE 0)
        /\ Live <= create_calls
        /\ is_started_ => Live <= initial_pool_size_

\* C2 witness: a Fixed pool of size 2 served a third overlapping use by a recycle.
C2_Witness ==
    /\ object_pool_type_ = "Fixed"
    /\ initial_pool_size_ = 2
    /\ last.op = "Use"
    /\ Len(calls) = 2 /\ calls[1][1] = "Dispose" /\ calls[2][1] = "Start"
    /\ Len(used_instances_list_) = 2
    /\ Live = 2

\* C3: Use on a running Fixed pool whose free list is empty recycles the front
\* of the used list, which is the use started earliest: UseId + 1, Dispose
\* then Start on its value, it ends active at the back of the used list, the
\* new closure carries the incremented UseId, and nothing else changes.
C3_FixedRecycle ==
    [][(/\ last'.op = "Use"
        /\ object_pool_type_ = "Fixed"
        /\ Running
        /\ instances_list_ = <<>>
        /\ used_instances_list_ # <<>>)
       => LET c == Head(used_instances_list_) IN
          /\ \A d \in Range(used_instances_list_) : value[c].StartedAt <= value[d].StartedAt
          /\ used_instances_list_' = Append(Tail(used_instances_list_), c)
          /\ instance'[c] = [IsActive |-> TRUE, UseId |-> instance[c].UseId + 1]
          /\ calls' = << <<"Dispose", c>>, <<"Start", c>> >>
          /\ caps' = caps \cup {<<c, instance[c].UseId + 1>>}
          /\ <<c, instance[c].UseId + 1>> \notin caps
          /\ \A d \in DOMAIN instance : d # c => instance'[d] = instance[d]
          /\ DOMAIN instance' = DOMAIN instance
          /\ UNCHANGED <<instances_list_, instances_map_, creation_id_, create_calls>>
          /\ err' = NoError
      ]_vars

\* C3 witness: a Fixed pool of size 2 has just recycled an instance, which is
\* now at the back of the used list with UseId 1 while the other kept UseId 0.
C3_Witness ==
    /\ object_pool_type_ = "Fixed"
    /\ initial_pool_size_ = 2
    /\ last.op = "Use"
    /\ Len(calls) = 2 /\ calls[1][1] = "Dispose" /\ calls[2][1] = "Start"
    /\ calls[1][2] = calls[2][2]
    /\ Len(used_instances_list_) = 2
    /\ used_instances_list_[2] = calls[1][2]
    /\ instance[used_instances_list_[2]].UseId = 1
    /\ instance[used_instances_list_[1]].UseId = 0

\* C4: Use on a running FailSilent pool whose free list is empty invokes no hook,
\* raises no error and changes nothing; a FailSilent pool holds exactly N live
\* instances, created by exactly N Create calls, from initialization to DestroyPool.
C4_FailSilentNoOp ==
    /\ [](object_pool_type_ = "FailSilent" /\ Running
            => Live = initial_pool_size_ /\ create_calls = initial_pool_size_)
    /\ [][(/\ last'.op = "Use"
           /\ object_pool_type_ = "FailSilent"
           /\ Running
           /\ instances_list_ = <<>>)
          => /\ UNCHANGED <<poolState, hookState, caps, signals>>
             /\ calls' = <<>>
             /\ err' = NoError
         ]_vars

\* C4 witness: an exhausted FailSilent pool of size 2 was asked for one more use.
C4_Witness ==
    /\ object_pool_type_ = "FailSilent"
    /\ initial_pool_size_ = 2
    /\ Running
    /\ last.op = "Use"
    /\ calls = <<>>
    /\ err = NoError
    /\ instances_list_ = <<>>
    /\ Len(used_instances_list_) = 2

\* C5: on a running Unbounded pool no instance is ever torn down, and while no
\* use has been disposed, m uses leave max(N, m) live instances, the m uses
\* holding m distinct instances.  Every Use adds one instance that was not in
\* use to the used list, ends no other use, and adds one live instance exactly
\* when the free list was empty.
C5_UnboundedGrows ==
    /\ []((object_pool_type_ = "Unbounded" /\ Running) =>
            /\ \A c \in DOMAIN value : value[c].Destroy = 0
            /\ Live = create_calls
            /\ Live >= initial_pool_size_
            /\ (\A c \in DOMAIN value : value[c].Dispose = 0) =>
                  /\ Live = (IF start_calls >= initial_pool_size_ THEN start_calls
                             ELSE initial_pool_size_)
                  /\ Len(used_instances_list_) = start_calls
                  /\ Cardinality(Range(used_instances_list_)) = start_calls)
    /\ [][(last'.op = "Use" /\ object_pool_type_ = "Unbounded" /\ Running)
          => /\ \E c \in DOMAIN instance' :
                  /\ c \notin Range(used_instances_list_)
                  /\ used_instances_list_' = Append(used_instances_list_, c)
             /\ \A d \in DOMAIN value :
                  value'[d].Dispose = value[d].Dispose /\ value'[d].Destroy = value[d].Destroy
             /\ Live' = Live + (IF instances_list_ = <<>> THEN 1 ELSE 0)
         ]_vars

\* C5 witness: an Unbounded pool of size 2 with 3 overlapping uses, none disposed.
C5_Witness ==
    /\ object_pool_type_ = "Unbounded"
    /\ initial_pool_size_ = 2
    /\ Running
    /\ start_calls = 3
    /\ \A c \in DOMAIN value : value[c].Dispose = 0
    /\ Live = 3

\* C6 as stated: on a running Elastic pool, when at most N instances are in use
\* the live count is at most N.  (The live count exceeds N only after growth,
\* and then more than N are in use until a disposal, so every state with at
\* most N in use and more than N live is one the claim is about.)
C6_Original ==
    (object_pool_type_ = "Elastic" /\ Running
        /\ Len(used_instances_list_) <= initial_pool_size_)
    => Live <= initial_pool_size_

\* C6 amended: on a running Elastic pool the free list never holds more than N
\* instances and every live instance is in one of the two lists, so the live
\* count is at most N plus the number in use; once no instance is in use the
\* live count is exactly N, the excess having been torn down.
C6_ElasticShrinks ==
    (object_pool_type_ = "Elastic" /\ Running) =>
        /\ Len(instances_list_) <= initial_pool_size_
        /\ Live = Len(instances_list_) + Len(used_instances_list_)
        /\ Live <= initial_pool_size_ + Len(used_instances_list_)
        /\ used_instances_list_ = <<>> => Live = initial_pool_size_
        /\ Cardinality({c \in DOMAIN value : value[c].Destroy = 1}) = create_calls - Live

\* C6 witness: an Elastic pool of size 2 grew, all uses ended, and 2 instances
\* are left, the excess one torn down.
C6_Witness ==
    /\ object_pool_type_ = "Elastic"
    /\ initial_pool_size_ = 2
    /\ Running
    /\ create_calls = 3
    /\ used_instances_list_ = <<>>
    /\ Live = 2
    /\ \E c \in DOMAIN value : value[c].Destroy = 1 /\ c \notin instances_map_

\* C7 as stated: the DestroyPool that destroys the pool invokes Dispose then
\* Destroy once on every used instance, Destroy once on every free instance,
\* and leaves both lists and the map empty and the pool destroyed.
C7_DestroyPoolTearsDownAll ==
    [][(last'.op = "DestroyPool" /\ ~is_destroyed_)
       => /\ \A c \in Range(used_instances_list_) :
               /\ value'[c].Dispose = value[c].Dispose + 1
               /\ value'[c].Destroy = value[c].Destroy + 1
               /\ \E i, j \in 1..Len(calls') :
                     i < j /\ calls'[i] = <<"Dispose", c>> /\ calls'[j] = <<"Destroy", c>>
          /\ \A c \in Range(instances_list_) : value'[c].Destroy = value[c].Destroy + 1
          /\ used_instances_list_' = <<>>
          /\ instances_list_' = <<>>
          /\ instances_map_' = {}
          /\ is_destroyed_'
      ]_vars

\* C8: once the pool is destroyed no hook is invoked and no field of the pool
\* changes, whatever runs: DestroyPool, Use, Init, a dispose closure, a pending signal.
C8_DestroyedIsFinal ==
    [][is_destroyed_ => (UNCHANGED <<poolState, hookState, caps>> /\ calls' = <<>>)]_vars

\* C8 witness: a signal fired before DestroyPool was handled after it.
C8_Witness ==
    /\ is_destroyed_
    /\ last.op = "signal"
    /\ value[last.arg[1]].Destroy = 1
    /\ instance[last.arg[1]].UseId = last.arg[2] + 1

\* C9: Use on a destroyed pool raises "Object pool is destroyed", whether or not
\* the pool was ever initialized, invokes no hook and creates no instance.
C9_UseAfterDestroyFails ==
    [][(last'.op = "Use" /\ is_destroyed_)
       => /\ err' = ErrDestroyed
          /\ calls' = <<>>
          /\ UNCHANGED <<poolState, hookState, caps, signals>>
      ]_vars

\* C9 witness: Use failed on a pool destroyed before it was ever initialized.
C9_Witness ==
    /\ last.op = "Use"
    /\ err = ErrDestroyed
    /\ is_destroyed_
    /\ ~is_started_
    /\ initial_pool_size_ > 0

\* C10: nothing is created and no listener is connected before the first Init
\* or Use; the step that starts the pool creates exactly N instances (all on the
\* free list after Init, N in the two lists after Use) and connects one
\* listener; a later Init changes nothing, a later Use connects nothing and
\* does not add to the free list; a running pool has exactly one listener, and
\* firing a signal queues it once.
C10_InitOnceLazy ==
    /\ [](/\ ~is_started_ => (create_calls = 0 /\ listeners = 0 /\ DOMAIN value = {})
          /\ Running => listeners = 1)
    /\ [][/\ (~is_started_ /\ is_started_')
               => /\ initial_pool_size_ > 0
                  /\ last'.op \in {"Init", "Use"}
                  /\ create_calls' = initial_pool_size_
                  /\ listeners' = 1
                  /\ Len(instances_list_') + Len(used_instances_list_') = initial_pool_size_
                  /\ last'.op = "Init" =>
                        instances_list_' = [i \in 1..initial_pool_size_ |-> i - 1]
          /\ (is_started_ /\ last'.op = "Init")
               => (UNCHANGED <<poolState, hookState>> /\ calls' = <<>>)
          /\ (is_started_ /\ last'.op = "Use")
               => /\ listeners' = listeners
                  /\ Len(instances_list_') <= Len(instances_list_)
                  /\ create_calls' <= create_calls + 1
          /\ (Running /\ last'.op = "dispose" /\ ~Stale(last'.arg))
               => signals' = Append(signals, last'.arg)
         ]_vars

\* C10 witness: Init was called on a pool that a Use had already started, and
\* created nothing.
C10_Witness ==
    /\ last.op = "Init"
    /\ Running
    /\ calls = <<>>
    /\ err = NoError
    /\ start_calls >= 1
    /\ create_calls = initial_pool_size_
    /\ listeners = 1

\* C11 as stated: in every reachable state every instance created and not torn
\* down is exactly once in exactly one of the free list and the used list, and
\* the map holds an instance exactly when it has not been torn down.
C11_ListsPartitionLive ==
    /\ \A c \in DOMAIN value :
          value[c].Destroy = 0 =>
             Cardinality({i \in 1..Len(instances_list_) : instances_list_[i] = c})
               + Cardinality({i \in 1..Len(used_instances_list_) : used_instances_list_[i] = c}) = 1
    /\ \A c \in DOMAIN value : (c \in instances_map_) <=> (value[c].Destroy = 0)
    /\ Range(instances_list_) \cup Range(used_instances_list_) \subseteq instances_map_

\* C12 as stated: in every reachable state an instance's IsActive is true
\* exactly when the instance is in the used list.
C12_ActiveIffUsed ==
    \A c \in DOMAIN instance :
        instance[c].IsActive <=> (c \in Range(used_instances_list_))

\* The use of instance c that the step from this state ends, by each of the
\* three ways a use ends.
UseEnds(c) ==
    \/ /\ last'.op = "signal"
       /\ last'.arg = <<c, instance[c].UseId>>
       /\ c \in instances_map_
    \/ /\ last'.op = "Use"
       /\ object_pool_type_ = "Fixed"
       /\ Running
       /\ instances_list_ = <<>>
       /\ used_instances_list_ # <<>>
       /\ Head(used_instances_list_) = c
    \/ /\ last'.op = "DestroyPool"
       /\ ~is_destroyed_
       /\ c \in Range(used_instances_list_)

\* C13: UseId is 0 at creation, and a step adds 1 to it exactly when it ends a
\* use of the instance (valid signal, Fixed recycle, DestroyPool of a used
\* instance) and leaves it alone otherwise; at every moment UseId equals the
\* number of Dispose invocations on the instance's value.
C13_UseIdCountsDisposals ==
    /\ [](\A c \in DOMAIN instance : instance[c].UseId = value[c].Dispose)
    /\ [][/\ DOMAIN instance \subseteq DOMAIN instance'
          /\ \A c \in DOMAIN instance' \ DOMAIN instance : instance'[c].UseId = 0
          /\ \A c \in DOMAIN instance :
                instance'[c].UseId = instance[c].UseId + (IF UseEnds(c) THEN 1 ELSE 0)
         ]_vars

\* C13 witness: an instance whose uses ended in two of the ways (a valid signal,
\* then DestroyPool) has UseId 2.
C13_Witness ==
    /\ last.op = "DestroyPool"
    /\ \E c \in DOMAIN instance :
          /\ instance[c].UseId = 2
          /\ value[c].Dispose = 2
          /\ calls[1] = <<"Dispose", c>>

\* C14 as stated: whenever Destroy is invoked on a value, Dispose was invoked on
\* that value before (earlier in the same operation, or in an earlier one) and
\* Start has not been invoked on it since.
C14_DisposeBeforeDestroy ==
    [][\A i \in 1..Len(calls') :
          calls'[i][1] = "Destroy" =>
             LET c == calls'[i][2] IN
             \/ \E j \in 1..(i - 1) :
                   /\ calls'[j] = <<"Dispose", c>>
                   /\ \A k \in (j + 1)..(i - 1) : calls'[k] # <<"Start", c>>
             \/ /\ c \in DOMAIN value
                /\ value[c].Dispose >= 1
                /\ value[c].Dispose = value[c].Start
                /\ \A k \in 1..(i - 1) : calls'[k] # <<"Start", c>>
      ]_vars

\* A pool on which no use has ended yet and at most N uses were started.
Fresh ==
    /\ Running
    /\ start_calls <= initial_pool_size_
    /\ \A c \in DOMAIN value : value[c].Dispose = 0

\* A Fixed pool of size 2 whose third Use has just force-disposed an instance,
\* no use having ended before.
ThirdUseRecycled ==
    /\ object_pool_type_ = "Fixed"
    /\ initial_pool_size_ = 2
    /\ Running
    /\ last.op = "Use"
    /\ start_calls = 3
    /\ Len(calls) = 2
    /\ calls[1][1] = "Dispose"
    /\ value[0].Dispose + value[1].Dispose = 1

\* C15 as stated: on a freshly initialized pool the k-th Use holds the instance
\* with CreationId k - 1 (UseId 0); with size 2 and Fixed the third overlapping
\* Use force-disposes CreationId 0, reactivates it with UseId 1 at the back of
\* the used list and leaves CreationId 1 untouched.
C15_Original ==
    /\ Fresh => /\ used_instances_list_ = [i \in 1..start_calls |-> i - 1]
                /\ \A c \in Range(used_instances_list_) : instance[c].UseId = 0
    /\ ThirdUseRecycled =>
          /\ calls = << <<"Dispose", 0>>, <<"Start", 0>> >>
          /\ used_instances_list_ = <<1, 0>>
          /\ instance[0] = [IsActive |-> TRUE, UseId |-> 1]
          /\ instance[1] = [IsActive |-> TRUE, UseId |-> 0]

\* C15 amended: the free list is popped from its back, so the k-th Use holds the
\* instance with CreationId N - k (UseId 0); with size 2 and Fixed the third
\* overlapping Use force-disposes CreationId 1, the first allocated, reactivates
\* it with UseId 1 at the back of the used list and leaves CreationId 0 untouched.
C15_AllocationOrder ==
    /\ Fresh => /\ used_instances_list_ = [i \in 1..start_calls |-> initial_pool_size_ - i]
                /\ \A c \in Range(used_instances_list_) : instance[c].UseId = 0
    /\ ThirdUseRecycled =>
          /\ calls = << <<"Dispose", 1>>, <<"Start", 1>> >>
          /\ used_instances_list_ = <<0, 1>>
          /\ instance[1] = [IsActive |-> TRUE, UseId |-> 1]
          /\ instance[0] = [IsActive |-> TRUE, UseId |-> 0]
          /\ <<1, 1>> \in caps

\* C15 witness: the third Use of the Fixed pool of size 2 has recycled.
C15_Witness ==
    /\ ThirdUseRecycled
    /\ used_instances_list_ = <<0, 1>>
    /\ instance[1].UseId = 1

\* The step from this state handles a valid signal for instance c and tears c down.
FreedAndTornDown(c) ==
    /\ calls' = << <<"Dispose", c>>, <<"Destroy", c>> >>
    /\ instances_map_' = instances_map_ \ {c}
    /\ instances_list_' = instances_list_
    /\ c \notin Range(used_instances_list_')

\* The step from this state handles a valid signal for instance c and keeps c.
FreedAndKept(c) ==
    /\ calls' = << <<"Dispose", c>> >>
    /\ instances_map_' = instances_map_
    /\ instances_list_' = Append(instances_list_, c)
    /\ c \notin Range(used_instances_list_')

\* C16 as stated: a valid signal on an Elastic pool tears the instance down
\* exactly when the free list with the instance added would hold N or more
\* (size + 1 >= N), and pushes it on the free list otherwise; on the other
\* strategies the instance is always pushed on the free list.
C16_Original ==
    [][(last'.op = "signal" /\ ~Stale(last'.arg))
       => LET c == last'.arg[1] IN
          IF object_pool_type_ = "Elastic"
          THEN IF Len(instances_list_) + 1 >= initial_pool_size_
               THEN FreedAndTornDown(c) ELSE FreedAndKept(c)
          ELSE FreedAndKept(c)
      ]_vars

\* C16 amended: a valid signal on an Elastic pool tears the instance down exactly
\* when the free list already holds N or more instances before the instance is
\* added (size >= N), and pushes it on the free list otherwise; on the other
\* strategies the instance is always pushed on the free list.
C16_ElasticShrinkRule ==
    [][(last'.op = "signal" /\ ~Stale(last'.arg))
       => LET c == last'.arg[1] IN
          IF object_pool_type_ = "Elastic"
          THEN IF Len(instances_list_) >= initial_pool_size_
               THEN FreedAndTornDown(c) ELSE FreedAndKept(c)
          ELSE FreedAndKept(c)
      ]_vars

\* C16 witness: an Elastic pool of size 2 whose free list held 2 instances has
\* torn down the instance a valid signal freed.
C16_Witness ==
    /\ object_pool_type_ = "Elastic"
    /\ initial_pool_size_ = 2
    /\ last.op = "signal"
    /\ Len(calls) = 2 /\ calls[2][1] = "Destroy"
    /\ Len(instances_list_) = 2
    /\ ~is_destroyed_

\* C17: on a pool whose size is not positive, Init and Use raise an error (the
\* size error while the pool is not destroyed), invoke no hook and change
\* nothing; the pool is never started and its lists and map stay empty, so every
\* later Use fails the same way.
C17_NonPositiveSizeFails ==
    /\ [](initial_pool_size_ <= 0
            => /\ ~is_started_
               /\ used_instances_list_ = <<>> /\ instances_list_ = <<>>
               /\ instances_map_ = {}
               /\ create_calls = 0 /\ start_calls = 0 /\ listeners = 0)
    /\ [][(initial_pool_size_ <= 0 /\ last'.op \in {"Init", "Use"})
          => /\ err' = (IF is_destroyed_ THEN ErrDestroyed ELSE ErrSize)
             /\ calls' = <<>>
             /\ UNCHANGED <<poolState, hookState, caps, signals>>
         ]_vars

\* C17 witness: Use has failed with the size error on a pool of size 0, which
\* is left not started, in the state it was constructed in.
C17_Witness ==
    /\ initial_pool_size_ = 0
    /\ last.op = "Use"
    /\ err = ErrSize
    /\ ~is_started_
    /\ ~is_destroyed_

\* C18: on a running Fixed pool an empty free list means a non-empty used list;
\* every Use on it raises no error and invokes Start exactly once, so the
\* branch that finds nothing to recycle is never taken.
C18_FixedAlwaysAllocates ==
    /\ []((object_pool_type_ = "Fixed" /\ Running /\ instances_list_ = <<>>)
            => used_instances_list_ # <<>>)
    /\ [][(object_pool_type_ = "Fixed" /\ last'.op = "Use"
             /\ ~is_destroyed_ /\ initial_pool_size_ > 0)
          => /\ err' = NoError
             /\ Cardinality({i \in 1..Len(calls') : calls'[i][1] = "Start"}) = 1
             /\ start_calls' = start_calls + 1
         ]_vars

\* C18 witness: a Fixed pool of size 1, its free list empty, has served a Use
\* by recycling its only instance, which an earlier signal had freed once.
C18_Witness ==
    /\ object_pool_type_ = "Fixed"
    /\ initial_pool_size_ = 1
    /\ Running
    /\ last.op = "Use"
    /\ calls = << <<"Dispose", 0>>, <<"Start", 0>> >>
    /\ instance[0].UseId = 2
    /\ used_instances_list_ = <<0>>
    /\ instances_list_ = <<>>

\* C19: on a running Elastic pool of size N the free list holds at most N
\* instances and at least N instances are live; when nothing is in use the pool
\* holds exactly N instances, all of them on the free list.
C19_ElasticBounds ==
    (object_pool_type_ = "Elastic" /\ Running) =>
        /\ Len(instances_list_) <= initial_pool_size_
        /\ Live >= initial_pool_size_
        /\ Cardinality(instances_map_) >= initial_pool_size_
        /\ used_instances_list_ = <<>> =>
              /\ Len(instances_list_) = initial_pool_size_
              /\ Range(instances_list_) = instances_map_
              /\ Live = initial_pool_size_

\* C19 witness: an Elastic pool of size 2 that grew to 3 instances and shrank
\* again holds 2 instances, both free.
C19_Witness ==
    /\ object_pool_type_ = "Elastic"
    /\ initial_pool_size_ = 2
    /\ Running
    /\ creation_id_ = 3
    /\ used_instances_list_ = <<>>
    /\ Len(instances_list_) = 2
    /\ Cardinality(instances_map_) = 2

\* ---------------------------------------------------------------- liveness
\* The caller invokes the dispose closure of a use that is still outstanding
\* (what Start's contract asks of it: "Must eventually invoke dispose").
InvokeOutstanding ==
    \E cap \in caps :
        /\ cap[1] \in Range(used_instances_list_)
        /\ instance[cap[1]].UseId = cap[2]
        /\ Len(signals) < MaxSignals
        /\ Commit(DisposeClosure(Pool, cap[1], cap[2]))
        /\ last' = [op |-> "dispose", arg |-> cap]

\* pool.Use(start_data), in behaviours with at most MaxFairUses started uses.
FairUse == UseAction /\ start_calls' <= MaxFairUses

FairNext ==
    \/ FairUse
    \/ InitAction
    \/ DestroyPoolAction
    \/ InvokeDispose
    \/ DeliverSignal

\* The pool under the scheduling the claim assumes: a fired signal is eventually
\* handled by the listener, and an outstanding closure is eventually invoked.
FairSpec == Init /\ [][FairNext]_vars /\ WF_vars(DeliverSignal) /\ WF_vars(InvokeOutstanding)

\* The signal of the outstanding use u of instance c is pending on a pool that
\* is not destroyed.
Pending(c, u) ==
    /\ ~is_destroyed_
    /\ c \in Range(used_instances_list_)
    /\ instance[c].UseId = u
    /\ <<c, u>> \in Range(signals)

\* No outstanding use has a signal pending.
NonePending == \A i \in 1..Len(signals) : ~Pending(signals[i][1], signals[i][2])

\* C20: under fair delivery a pending signal of an outstanding use leads to the
\* end of that use.  Stated as: again and again no outstanding use has a signal
\* pending, where a signal leaves the queue only by being handled, and the step
\* that handles a valid signal takes the instance off the used list, invokes
\* Dispose on it exactly once (and on no other), and leaves it on the free list
\* or torn down.  And once Use calls have stopped, with every outstanding
\* closure eventually invoked, the used list becomes empty and stays empty.
C20_DisposalCompletes ==
    /\ []<>NonePending
    /\ <>[](used_instances_list_ = <<>>)
    /\ [][/\ (last'.op = "signal" /\ ~Stale(last'.arg))
             => LET c == last'.arg[1] IN
                /\ c \in Range(used_instances_list_)
                /\ c \notin Range(used_instances_list_')
                /\ instance'[c].UseId = instance[c].UseId + 1
                /\ Cardinality({i \in 1..Len(calls') : calls'[i][1] = "Dispose"}) = 1
                /\ calls'[1] = <<"Dispose", c>>
                /\ (c \in Range(instances_list_')) # (c \notin instances_map_')
          /\ \A i \in 1..Len(signals) :
                (\A j \in 1..Len(signals') : signals'[j] # signals[i])
                   => last' = [op |-> "signal", arg |-> signals[i]]
         ]_vars

\* C20 witness: on an Unbounded pool the signal of the last outstanding use was
\* handled: its instance is back on the free list and nothing is in use.
C20_Witness ==
    /\ object_pool_type_ = "Unbounded"
    /\ Running
    /\ last.op = "signal"
    /\ calls = << <<"Dispose", last.arg[1]>> >>
    /\ last.arg[1] \in Range(instances_list_)
    /\ used_instances_list_ = <<>>
    /\ start_calls >= 2

====
